---------------------------- MODULE Spec2Model ----------------------------
(***************************************************************************)
(* A model of curator.py: the Curator that embeds a list of images, ranks  *)
(* every pair of images by the mean squared error of their embeddings      *)
(* (construction), and presents the most similar pairs                     *)
(* (duplicate_detection) or the most dissimilar images (garbage_detection) *)
(* to an external FileDeleter widget.                                      *)
(*                                                                         *)
(* Image indices are 0-based as in the code.  A path is a small integer    *)
(* (the name of a file); img_paths may name the same file more than once.  *)
(* The truncated VGG network is a pure function of the image file, so the  *)
(* file's content is modelled by the embedding the network gives it (or    *)
(* Corrupt when the file cannot be decoded).  Embeddings are vectors of    *)
(* integers for which the mean in MSE is exact; floating-point rounding is *)
(* outside the model.                                                      *)
(***************************************************************************)
EXTENDS Integers, Sequences, FiniteSets, TLC

\* ------------------------------------------------------------- bounds
\* The largest number of images handed to the constructor.
MaxN == 3
\* The largest batch_size handed to the constructor (1..MaxBatch).
MaxBatch == 2
\* duplicate_detection is called with num_pairs in -MaxNeg..MaxNumPairs.
MaxNumPairs == 2
MaxNeg == 1

\* The embeddings the network can give an image (two dimensions stand for
\* the 128 of the code).  All coordinates are multiples of ten, so every
\* mean of squared differences over two dimensions is an integer.
Embeddings == {<<0, 0>>, <<10, 10>>}
Corrupt == <<>>
\* One row of np.zeros((n_images, 128)).
ZeroRow == <<0, 0>>

PathIds == 1..MaxN
NumPairsArgs == (0 - MaxNeg)..MaxNumPairs

VARIABLES
    pc,            \* "loading" | "ready" | "failed"
    img_paths,     \* self.img_paths: [0..n_images-1 -> PathIds]
    n_images,      \* self.n_images
    batch_size,    \* the constructor's batch_size
    content,       \* the disk: what each file decodes to (an embedding or Corrupt)
    exists,        \* the disk: the set of paths whose file exists (os.path.exists)
    pos,           \* the DataLoader's sequential sampler: next dataset index
    count,         \* __init__'s count
    img_vecs,      \* __init__'s img_vecs: [0..n_images-1 -> vector]
    writes,        \* how many times each row of img_vecs has been assigned
    results,       \* self.results: sequence of [pair |-> <<i, j>>, mse |-> score]
    scores,        \* garbage_detection's scores after its accumulation loop
    argsort_seen,  \* what np.argsort returned for the score vector it was given
    presented      \* the last FileDeleter(paths) call, with the disk as it was

vars == <<pc, img_paths, n_images, batch_size, content, exists, pos, count,
          img_vecs, writes, results, scores, argsort_seen, presented>>

\* ------------------------------------------------------------ helpers
Min(a, b) == IF a < b THEN a ELSE b
Max(a, b) == IF a > b THEN a ELSE b

Images == 0..(n_images - 1)

SetMax(S) == IF S = {} THEN 0 ELSE CHOOSE x \in S : \A y \in S : y <= x

\* Path names are arbitrary: the first image's file is called 1, and each
\* later image names either a file already listed or the next unused name.
Canonical(f, n) ==
    \A i \in 0..(n - 1) : f[i] <= 1 + SetMax({f[j] : j \in 0..(i - 1)})

\* ImageDataset.__getitem__: Image.open(name) raises when the file is
\* missing or cannot be decoded.
Loadable(p) == p \in exists /\ content[p] # Corrupt

\* model(batch) for one image: the embedding of the file's content.
Embed(p) == content[p]

NoCall == [op |-> "none", num_pairs |-> 0, paths |-> <<>>, disk |-> {}]

\* --------------------------------------------------------------- Init
Init ==
    /\ n_images \in 0..MaxN
    /\ img_paths \in [0..(n_images - 1) -> PathIds]
    /\ Canonical(img_paths, n_images)
    /\ batch_size \in 1..MaxBatch
    /\ exists = {img_paths[i] : i \in 0..(n_images - 1)}
    /\ content \in [exists -> Embeddings \cup {Corrupt}]
    /\ pc = "loading"
    /\ pos = 0
    /\ count = 0
    /\ img_vecs = [i \in 0..(n_images - 1) |-> ZeroRow]
    /\ writes = [i \in 0..(n_images - 1) |-> 0]
    /\ results = <<>>
    /\ scores = <<>>
    /\ argsort_seen = [given |-> <<>>, order |-> <<>>]
    /\ presented = NoCall


\* -------------------------------------------------------- construction
\* The dataset indices of the DataLoader's next batch (shuffle=False: the
\* sequential sampler, batch_size at a time, the last batch possibly short).
BatchIndices == pos..(Min(pos + batch_size, n_images) - 1)

\* A slip: count += batch_size, which overshoots on a short last batch.
LoadBatchFullCount ==
    /\ pc = "loading"
    /\ pos < n_images
    /\ \A i \in BatchIndices : Loadable(img_paths[i])
    /\ LET len  == Cardinality(BatchIndices)
           vecs == [k \in 0..(len - 1) |-> Embed(img_paths[pos + k])]
           rows == {i \in Images : count <= i /\ i < count + len}
       IN  /\ img_vecs' = [i \in Images |->
                              IF i \in rows THEN vecs[i - count] ELSE img_vecs[i]]
           /\ writes' = [i \in Images |->
                              IF i \in rows THEN writes[i] + 1 ELSE writes[i]]
           /\ count' = count + batch_size
           /\ pos' = pos + len
    /\ UNCHANGED <<pc, img_paths, n_images, batch_size, content, exists,
                   results, scores, argsort_seen, presented>>

\* for batch in loader: vecs = model(batch);
\* img_vecs[count:count+vecs.shape[0]] = vecs; count += vecs.shape[0]
LoadBatch ==
    /\ pc = "loading"
    /\ pos < n_images
    /\ \A i \in BatchIndices : Loadable(img_paths[i])
    /\ LET len  == Cardinality(BatchIndices)
           vecs == [k \in 0..(len - 1) |-> Embed(img_paths[pos + k])]
           rows == {i \in Images : count <= i /\ i < count + len}
       IN  /\ img_vecs' = [i \in Images |->
                              IF i \in rows THEN vecs[i - count] ELSE img_vecs[i]]
           /\ writes' = [i \in Images |->
                              IF i \in rows THEN writes[i] + 1 ELSE writes[i]]
           /\ count' = count + len
           /\ pos' = pos + len
    /\ UNCHANGED <<pc, img_paths, n_images, batch_size, content, exists,
                   results, scores, argsort_seen, presented>>

\* A slip: the error is caught and the batch skipped, its rows left zero.
LoadFailsSkipped ==
    /\ pc = "loading"
    /\ pos < n_images
    /\ \E i \in BatchIndices : ~Loadable(img_paths[i])
    /\ pos' = pos + Cardinality(BatchIndices)
    /\ UNCHANGED <<pc, img_paths, n_images, batch_size, content, exists, count,
                   img_vecs, writes, results, scores, argsort_seen, presented>>

\* An image of the next batch cannot be opened: __getitem__ raises, nothing
\* catches it, and __init__ ends with the exception.
LoadFails ==
    /\ pc = "loading"
    /\ pos < n_images
    /\ \E i \in BatchIndices : ~Loadable(img_paths[i])
    /\ pc' = "failed"
    /\ UNCHANGED <<img_paths, n_images, batch_size, content, exists, pos, count,
                   img_vecs, writes, results, scores, argsort_seen, presented>>

\* list(combinations(range(n), 2)): the pairs (i, j), i < j, in
\* lexicographic order.
RECURSIVE CombinationsFrom(_, _, _)
CombinationsFrom(i, j, n) ==
    IF i >= n - 1 THEN <<>>
    ELSE IF j >= n THEN CombinationsFrom(i + 1, i + 2, n)
    ELSE <<(<<i, j>>)>> \o CombinationsFrom(i, j + 1, n)

\* A slip: combinations(range(n - 1), 2), which never pairs the last image.
CombinationsShort(n) == CombinationsFrom(0, 1, n - 1)

Combinations(n) == CombinationsFrom(0, 1, n)

RECURSIVE SumSq(_, _, _)
SumSq(a, b, d) ==
    IF d = 0 THEN 0 ELSE (a[d] - b[d]) * (a[d] - b[d]) + SumSq(a, b, d - 1)

\* np.mean((a - b)**2): the mean squared error of two embeddings.
MSE(a, b) == SumSq(a, b, Len(a)) \div Len(a)

\* list(zip(pairs, mse))
Scored(pairs, vecs) ==
    [k \in 1..Len(pairs) |->
        [pair |-> pairs[k], mse |-> MSE(vecs[pairs[k][1]], vecs[pairs[k][2]])]]

\* A slip: an insertion that goes before the entries of equal key, so that
\* equal scores come out in reverse enumeration order.
InsertBeforeEqual(sorted, x) ==
    LET before == {k \in 1..Len(sorted) : sorted[k].mse < x.mse}
        at     == SetMax(before)
    IN  SubSeq(sorted, 1, at) \o <<x>> \o SubSeq(sorted, at + 1, Len(sorted))

\* One step of a stable sort: x goes after every entry whose key is <= its own.
InsertByKey(sorted, x) ==
    LET before == {k \in 1..Len(sorted) : sorted[k].mse <= x.mse}
        at     == SetMax(before)
    IN  SubSeq(sorted, 1, at) \o <<x>> \o SubSeq(sorted, at + 1, Len(sorted))

\* sorted(seq, key=lambda x: x[1]): ascending by score, stable.
RECURSIVE SortedFrom(_, _, _)
SortedFrom(seq, k, acc) ==
    IF k > Len(seq) THEN acc ELSE SortedFrom(seq, k + 1, InsertByKey(acc, seq[k]))

SortedByScore(seq) == SortedFrom(seq, 1, <<>>)

\* The loader is exhausted; lines 118-120 rank the pairs and __init__ returns.
RankPairs ==
    /\ pc = "loading"
    /\ pos >= n_images
    /\ n_images >= 2
    /\ results' = SortedByScore(Scored(Combinations(n_images), img_vecs))
    /\ pc' = "ready"
    \* __init__ returns: its arguments and locals are gone
    /\ batch_size' = 0
    /\ pos' = 0
    /\ count' = 0
    /\ img_vecs' = <<>>
    /\ writes' = <<>>
    /\ UNCHANGED <<img_paths, n_images, content, exists, scores, argsort_seen,
                   presented>>

\* With fewer than two images pairs is the empty list: img_vecs[pairs,:] is
\* then a 2-dimensional array of shape (0, 128), and indexing it with
\* [:,0,:] raises IndexError (too many indices), which ends __init__.
RankFails ==
    /\ pc = "loading"
    /\ pos >= n_images
    /\ n_images < 2
    /\ pc' = "failed"
    /\ UNCHANGED <<img_paths, n_images, batch_size, content, exists, pos, count,
                   img_vecs, writes, results, scores, argsort_seen, presented>>

\* ----------------------------------------------------------- the disk
\* The user (through the widget or otherwise) deletes a file.
DeleteFile(p) ==
    /\ pc # "failed"
    /\ p \in exists
    /\ exists' = exists \ {p}
    /\ UNCHANGED <<pc, img_paths, n_images, batch_size, content, pos, count,
                   img_vecs, writes, results, scores, argsort_seen, presented>>

\* -------------------------------------------------- duplicate_detection
\* A slip: a window of one entry too many.
SliceToOneMore(seq, k) ==
    IF k >= 0 THEN SubSeq(seq, 1, Min(k + 1, Len(seq)))
    ELSE SubSeq(seq, 1, Max(Len(seq) + k + 1, 0))

\* Python's seq[:k]: the first k entries, or all but the last -k when k < 0.
SliceTo(seq, k) ==
    IF k >= 0 THEN SubSeq(seq, 1, Min(k, Len(seq)))
    ELSE SubSeq(seq, 1, Max(Len(seq) + k, 0))

\* A slip: "or" for "and", so that a pair with one file left is kept.
RECURSIVE DuplicateLoopEither(_, _, _)
DuplicateLoopEither(window, k, paths) ==
    IF k > Len(window) THEN paths
    ELSE LET path0 == img_paths[window[k].pair[1]]
             path1 == img_paths[window[k].pair[2]]
         IN  IF path0 \in exists \/ path1 \in exists
             THEN DuplicateLoopEither(window, k + 1, paths \o <<path0, path1>>)
             ELSE DuplicateLoopEither(window, k + 1, paths)

\* The loop of lines 127-133 over the window, from entry k on.
RECURSIVE DuplicateLoop(_, _, _)
DuplicateLoop(window, k, paths) ==
    IF k > Len(window) THEN paths
    ELSE LET img0  == window[k].pair[1]
             img1  == window[k].pair[2]
             path0 == img_paths[img0]
             path1 == img_paths[img1]
         IN  IF path0 \in exists /\ path1 \in exists
             THEN DuplicateLoop(window, k + 1, paths \o <<path0, path1>>)
             ELSE DuplicateLoop(window, k + 1, paths)

\* A slip: the window is stored back, self.results = self.results[:num_pairs].
DuplicateDetectionTruncating(num_pairs) ==
    /\ pc = "ready"
    /\ results' = SliceTo(results, num_pairs)
    /\ presented' = [op |-> "duplicate", num_pairs |-> num_pairs,
                     paths |-> DuplicateLoop(results', 1, <<>>),
                     disk |-> exists]
    /\ UNCHANGED <<pc, img_paths, n_images, batch_size, content, exists, pos,
                   count, img_vecs, writes, scores, argsort_seen>>

\* A slip: the pairs are filtered first and the limit applied to the
\* survivors, so that pairs from beyond the window move up.
DuplicateDetectionFilterFirst(num_pairs) ==
    /\ pc = "ready"
    /\ presented' = [op |-> "duplicate", num_pairs |-> num_pairs,
                     paths |-> SliceTo(DuplicateLoop(results, 1, <<>>),
                                       2 * num_pairs),
                     disk |-> exists]
    /\ UNCHANGED <<pc, img_paths, n_images, batch_size, content, exists, pos,
                   count, img_vecs, writes, results, scores, argsort_seen>>

DuplicateDetection(num_pairs) ==
    /\ pc = "ready"
    /\ presented' = [op |-> "duplicate", num_pairs |-> num_pairs,
                     paths |-> DuplicateLoop(SliceTo(results, num_pairs), 1, <<>>),
                     disk |-> exists]
    /\ UNCHANGED <<pc, img_paths, n_images, batch_size, content, exists, pos,
                   count, img_vecs, writes, results, scores, argsort_seen>>

\* ---------------------------------------------------- garbage_detection
\* A slip: the score is added to the first image of the pair only.
RECURSIVE AccumulateFirstOnly(_, _, _)
AccumulateFirstOnly(res, k, sc) ==
    IF k > Len(res) THEN sc
    ELSE AccumulateFirstOnly(res, k + 1,
                             [sc EXCEPT ![res[k].pair[1]] = @ + res[k].mse])

\* The loop of lines 141-144: scores starts at zero, and every entry adds
\* its mse to both images of its pair.
RECURSIVE Accumulate(_, _, _)
Accumulate(res, k, sc) ==
    IF k > Len(res) THEN sc
    ELSE LET i == res[k].pair[1]
             j == res[k].pair[2]
             s1 == [sc EXCEPT ![i] = @ + res[k].mse]
             s2 == [s1 EXCEPT ![j] = @ + res[k].mse]
         IN  Accumulate(res, k + 1, s2)

\* np.argsort(sc): a permutation of the indices along which sc does not
\* decrease.  The default sort is not stable, so the order of equal scores
\* is whatever the implementation gives.
ArgSorts(sc) ==
    LET n == Cardinality(DOMAIN sc)
    IN  {order \in {[k \in 1..n |-> f[k - 1]] : f \in Permutations(DOMAIN sc)} :
            \A a \in 1..(n - 1) : sc[order[a]] <= sc[order[a + 1]]}

\* A slip: the reversal forgotten, so the most typical image comes first.
NotReversed(order) == order

\* order[::-1]
Reversed(order) == [k \in 1..Len(order) |-> order[Len(order) + 1 - k]]

\* The loop of lines 148-151 over the indices, from position k on.
RECURSIVE GarbageLoop(_, _, _)
GarbageLoop(order, k, paths) ==
    IF k > Len(order) THEN paths
    ELSE LET path == img_paths[order[k]]
         IN  IF path \in exists
             THEN GarbageLoop(order, k + 1, Append(paths, path))
             ELSE GarbageLoop(order, k + 1, paths)

GarbageDetection ==
    /\ pc = "ready"
    /\ LET sc == Accumulate(results, 1, [i \in Images |-> 0])
       IN  /\ scores' = sc
           /\ \E order \in ArgSorts(sc) :
                \* argsort is a function: the same scores give the same order
                /\ argsort_seen.given = sc => order = argsort_seen.order
                /\ argsort_seen' = [given |-> sc, order |-> order]
                /\ presented' = [op |-> "garbage", num_pairs |-> 0,
                                 paths |-> GarbageLoop(Reversed(order), 1, <<>>),
                                 disk |-> exists]
    /\ UNCHANGED <<pc, img_paths, n_images, batch_size, content, exists, pos,
                   count, img_vecs, writes, results>>

\* ------------------------------------------------------ specification
Next ==
    \/ LoadBatch
    \/ LoadFails
    \/ RankPairs
    \/ RankFails
    \/ \E p \in PathIds : DeleteFile(p)
    \/ \E num_pairs \in NumPairsArgs : DuplicateDetection(num_pairs)
    \/ GarbageDetection

Spec == Init /\ [][Next]_vars

\* ===================================================== the claims
NumPairsOf(n) == (n * (n - 1)) \div 2

LexLess(p, q) == p[1] < q[1] \/ (p[1] = q[1] /\ p[2] < q[2])

\* C1: once construction has completed, Results holds exactly N*(N-1)/2
\* entries, every entry's pair (i, j) has 0 <= i < j < N, and every
\* unordered pair of distinct indices is the pair of exactly one entry.
C1_AllPairsOnce ==
    pc = "ready" =>
        /\ Len(results) = NumPairsOf(n_images)
        /\ \A k \in 1..Len(results) :
              /\ 0 <= results[k].pair[1]
              /\ results[k].pair[1] < results[k].pair[2]
              /\ results[k].pair[2] < n_images
        /\ \A i, j \in Images :
              i < j => Cardinality({k \in 1..Len(results) :
                                       results[k].pair = <<i, j>>}) = 1

\* Three images, three pairs.
C1_Witness == pc = "ready" /\ n_images = 3 /\ Len(results) = 3

\* The example: three images with embeddings [0,0], [0,0], [10,10].
ExampleImages ==
    /\ n_images = 3
    /\ Embed(img_paths[0]) = <<0, 0>>
    /\ Embed(img_paths[1]) = <<0, 0>>
    /\ Embed(img_paths[2]) = <<10, 10>>

\* C2: Results is the stable ascending sort of the lexicographic pair
\* enumeration: of two consecutive entries, the first has the smaller score,
\* or the same score and the lexicographically smaller pair.  For the
\* example images Results is (0,1) at 0, then (0,2) and (1,2) at 100.
C2_StableAscending ==
    pc = "ready" =>
        /\ \A k \in 1..(Len(results) - 1) :
              \/ results[k].mse < results[k + 1].mse
              \/ /\ results[k].mse = results[k + 1].mse
                 /\ LexLess(results[k].pair, results[k + 1].pair)
        /\ ExampleImages =>
              results = << [pair |-> <<0, 1>>, mse |-> 0],
                           [pair |-> <<0, 2>>, mse |-> 100],
                           [pair |-> <<1, 2>>, mse |-> 100] >>

\* The sort moved (1,2) to the front and left the tied (0,1), (0,2) in
\* enumeration order.
C2_Witness ==
    /\ pc = "ready"
    /\ n_images = 3
    /\ results[1].pair = <<1, 2>>
    /\ results[2].pair = <<0, 1>>
    /\ results[3].pair = <<0, 2>>
    /\ results[1].mse < results[2].mse
    /\ results[2].mse = results[3].mse

\* C8: construction is all-or-nothing.  Results is never assigned outside the
\* ready state; a failed construction stays failed; a loader step on a batch
\* with an image that cannot be opened ends in failure; and the ready state is
\* entered only with every row of the embedding matrix written and the whole
\* of Results built.
C8_AllOrNothing ==
    [][ /\ (pc' # "ready" => results' = <<>>)
        /\ (pc = "failed" => pc' = "failed")
        /\ (/\ pc = "loading"
            /\ pos < n_images
            /\ \E i \in BatchIndices : ~Loadable(img_paths[i])
            /\ exists' = exists
            => pc' = "failed")
        /\ (pc = "loading" /\ pc' = "ready" =>
                /\ count = n_images
                /\ \A i \in Images : writes[i] = 1 /\ img_vecs[i] \in Embeddings
                /\ Len(results') = NumPairsOf(n_images))
      ]_vars

\* A later batch failed after an earlier one had been embedded.
C8_Witness ==
    pc = "failed" /\ count > 0 /\ count < n_images /\ results = <<>>

\* C9: throughout the batch loop the loader and count advance together, the
\* rows below count have been written once and hold the embedding of the
\* image of the same index, the rows from count on are untouched; when the
\* loader is exhausted count = N.
C9_RowsAligned ==
    pc = "loading" =>
        /\ pos = count
        /\ count <= n_images
        /\ \A i \in Images :
              IF i < count
              THEN writes[i] = 1 /\ img_vecs[i] = Embed(img_paths[i])
              ELSE writes[i] = 0 /\ img_vecs[i] = ZeroRow
        /\ (pos >= n_images => count = n_images)

\* Three images in batches of two: the last batch is short, and rows differ.
C9_Witness ==
    /\ pc = "loading"
    /\ n_images = 3
    /\ batch_size = 2
    /\ pos >= n_images
    /\ count = 3
    /\ img_vecs[0] # img_vecs[2]
    /\ img_vecs[1] # img_vecs[2]

\* The positions of Results whose pair contains image i.
EntriesWith(i) ==
    {k \in 1..Len(results) : results[k].pair[1] = i \/ results[k].pair[2] = i}

RECURSIVE SumMse(_)
SumMse(S) ==
    IF S = {} THEN 0
    ELSE LET k == CHOOSE x \in S : TRUE
         IN  results[k].mse + SumMse(S \ {k})

RECURSIVE SumOver(_, _)
SumOver(f, S) ==
    IF S = {} THEN 0
    ELSE LET i == CHOOSE x \in S : TRUE
         IN  f[i] + SumOver(f, S \ {i})

\* C3: after garbage_detection's accumulation loop, the aggregate score of
\* every image is the sum of the scores of exactly the entries of Results
\* whose pair contains it, and the aggregate scores add up to twice the sum
\* of all pairwise scores.
C3_AggregateScores ==
    pc = "ready" /\ DOMAIN scores # {} =>
        /\ DOMAIN scores = Images
        /\ \A i \in Images : scores[i] = SumMse(EntriesWith(i))
        /\ SumOver(scores, Images) = 2 * SumMse(1..Len(results))

\* The three-image example: images 0 and 1 alike, image 2 the outlier.
C3_Witness ==
    /\ pc = "ready"
    /\ n_images = 3
    /\ DOMAIN scores = 0..2
    /\ scores[0] = 100 /\ scores[1] = 100 /\ scores[2] = 200

\* The positions of the num_pairs most similar entries of Results.
TopEntries(num_pairs) == 1..Min(num_pairs, Len(results))

\* Both files of entry k were on the disk d.
BothOn(k, d) ==
    /\ img_paths[results[k].pair[1]] \in d
    /\ img_paths[results[k].pair[2]] \in d

\* C4: of the num_pairs (>= 0) most similar entries of Results,
\* duplicate_detection presents exactly those whose two files both exist, in
\* Results order, each as the path of i followed by the path of j.
C4_PairsFiltered ==
    presented.op = "duplicate" /\ presented.num_pairs >= 0 =>
        LET kept == {k \in TopEntries(presented.num_pairs) :
                        BothOn(k, presented.disk)}
        IN  /\ Len(presented.paths) = 2 * Cardinality(kept)
            /\ \A k \in kept :
                  LET r == Cardinality({m \in kept : m <= k})
                  IN  /\ presented.paths[2 * r - 1] = img_paths[results[k].pair[1]]
                      /\ presented.paths[2 * r] = img_paths[results[k].pair[2]]

\* A window of two pairs, one of them dropped for a deleted file.
C4_Witness ==
    /\ presented.op = "duplicate"
    /\ presented.num_pairs = 2
    /\ Len(results) >= 2
    /\ Len(presented.paths) = 2
    /\ \E k \in 1..2 : ~BothOn(k, presented.disk)

\* C5 as stated: for any integer num_pairs the presented list has at most
\* 2*num_pairs paths.
C5_AsStated ==
    presented.op = "duplicate" =>
        Len(presented.paths) <= 2 * presented.num_pairs

\* C5 as amended: for num_pairs >= 0 the presented list has at most
\* 2*num_pairs paths; for num_pairs < 0 the window is Results without its
\* last -num_pairs entries, and the list has at most
\* 2*max(0, len(Results) + num_pairs) paths.
C5_LengthBound ==
    presented.op = "duplicate" =>
        IF presented.num_pairs >= 0
        THEN Len(presented.paths) <= 2 * presented.num_pairs
        ELSE Len(presented.paths)
                 <= 2 * Max(0, Len(results) + presented.num_pairs)

\* The bound is met with Results longer than the window.
C5_Witness ==
    /\ presented.op = "duplicate"
    /\ presented.num_pairs >= 1
    /\ Len(results) > presented.num_pairs
    /\ Len(presented.paths) = 2 * presented.num_pairs

\* C6: garbage_detection presents the images whose file exists, each once,
\* and no missing file, in an order along which the aggregate score does not
\* increase.  (An image is an entry of img_paths: a file that img_paths
\* names twice is presented once for each entry.)
C6_GarbageOrder ==
    presented.op = "garbage" =>
        LET alive == {i \in Images : img_paths[i] \in presented.disk}
            paths == presented.paths
            m     == Len(paths)
        IN  /\ m = Cardinality(alive)
            /\ m <= n_images
            /\ \A k \in 1..m : paths[k] \in presented.disk
            /\ \A p \in presented.disk :
                  Cardinality({k \in 1..m : paths[k] = p})
                      = Cardinality({i \in Images : img_paths[i] = p})
            /\ \E ord \in [1..m -> alive] :
                  /\ \A a, b \in 1..m : a # b => ord[a] # ord[b]
                  /\ \A k \in 1..m : paths[k] = img_paths[ord[k]]
                  /\ \A k \in 1..(m - 1) :
                        SumMse(EntriesWith(ord[k]))
                            >= SumMse(EntriesWith(ord[k + 1]))

\* The three-image example with distinct files: the outlier, image 2, is
\* presented first.
C6_Witness ==
    /\ presented.op = "garbage"
    /\ n_images = 3
    /\ \A i, j \in Images : i # j => img_paths[i] # img_paths[j]
    /\ scores[0] = 100 /\ scores[1] = 100 /\ scores[2] = 200
    /\ Len(presented.paths) = 3
    /\ presented.paths[1] = img_paths[2]

\* C7: once the Curator is ready no step changes Results or the path list,
\* the calls delete no file, and a call of the same operation with the same
\* argument as the call before it, with no file deleted in between, presents
\* the same list.
C7_Idempotent ==
    [][ /\ (pc = "ready" => results' = results /\ img_paths' = img_paths)
        /\ (presented' # presented => exists' = exists)
        /\ (/\ presented'.op = presented.op
            /\ presented'.num_pairs = presented.num_pairs
            /\ presented'.disk = presented.disk
            => presented'.paths = presented.paths)
      ]_vars

\* A garbage_detection call on tied scores, no file deleted since.
C7_Witness ==
    /\ pc = "ready"
    /\ presented.op = "garbage"
    /\ presented.disk = exists
    /\ Len(presented.paths) >= 2
    /\ \E i, j \in Images : i # j /\ scores[i] = scores[j]

RECURSIVE IsSubseqFrom(_, _, _, _)
IsSubseqFrom(a, i, b, j) ==
    IF i > Len(a) THEN TRUE
    ELSE IF j > Len(b) THEN FALSE
    ELSE IF a[i] = b[j] THEN IsSubseqFrom(a, i + 1, b, j + 1)
    ELSE IsSubseqFrom(a, i, b, j + 1)

\* a is b with some of its entries left out.
IsSubseq(a, b) == IsSubseqFrom(a, 1, b, 1)

\* The paths of the num_pairs most similar entries, none left out.
WindowPaths(num_pairs) ==
    [m \in 1..(2 * Cardinality(TopEntries(num_pairs))) |->
        img_paths[results[(m + 1) \div 2].pair[2 - (m % 2)]]]

\* C10: for num_pairs >= 0 the presented list is drawn from the first
\* num_pairs entries of Results only, and a call with the same num_pairs as
\* the duplicate_detection call before it presents a subsequence of what that
\* call presented.
C10_WindowBeforeFilter ==
    [][ /\ (presented'.op = "duplicate" /\ presented'.num_pairs >= 0 =>
               IsSubseq(presented'.paths, WindowPaths(presented'.num_pairs)))
        /\ (/\ presented.op = "duplicate"
            /\ presented'.op = "duplicate"
            /\ presented'.num_pairs = presented.num_pairs
            /\ presented.num_pairs >= 0
            => IsSubseq(presented'.paths, presented.paths))
      ]_vars

\* Deletions emptied a window of one pair while a pair beyond it survives.
C10_Witness ==
    /\ presented.op = "duplicate"
    /\ presented.num_pairs = 1
    /\ presented.paths = <<>>
    /\ \E k \in 2..Len(results) : BothOn(k, presented.disk)

=============================================================================
